---- MODULE Spec2Model ----
(***************************************************************************)
(* Model of the yearly archive service (src/archive.py): the batched       *)
(* fetch / resolve / append / delete loop that moves expired rows of two   *)
(* source tables into year-partitioned destination workbooks.              *)
(*                                                                         *)
(* Time is counted in days; a model year has TicksPerYear days and day 0   *)
(* is the first day of 2024.  A source row is a record [id, ts]; the       *)
(* destination is a sequence of workbooks, each a sequence of worksheets.  *)
(***************************************************************************)
EXTENDS Integers, Sequences, FiniteSets, TLC

VARIABLES
    pc,          \* position of the process: load, auth, connect, header,
                 \* fetch, resolve (create, worksheet when the resolver's
                 \* calls are separate steps), append, delete, exited
    job,         \* index of the archive_table call in progress (1 or 2)
    source,      \* committed content of each source table: job -> set of rows
    headers,     \* column names of each source table: job -> sequence
    dest,        \* the destination service: sequence of workbooks
    rows,        \* the page fetched by the current iteration
    sh,          \* handle (index in dest) of the workbook of this iteration
    ws,          \* handle (index in the workbook) of the worksheet
    total,       \* total_archived of the call in progress
    outcome,     \* how each archive_table call ended: job -> string
    ret,         \* value returned by each archive_table call
    exitStatus,  \* process exit status, -1 while running
    exitCause,   \* what ended the process
    now,         \* the database clock NOW(), in days
    batchSize,   \* BATCH_SIZE, scaled down
    src0,        \* history: content of each table when the run started
    log,         \* history: the store operations performed, in order
    page,        \* the page handed to the batch splitter on its own
    slices,      \* the slices the batch splitter emitted so far
    other        \* a second instance of the script: its position and locals
                 \* while the first one is the one taking steps

vars == <<pc, job, source, headers, dest, rows, sh, ws, total, outcome, ret,
          exitStatus, exitCause, now, batchSize, src0, log, page, slices, other>>

----------------------------------------------------------------------------
(* Bounds of the model *)

MaxRows == 3        \* rows of the two source tables together
TicksPerYear == 2   \* days in a model year
MaxTs == 4          \* largest row timestamp
MaxTicks == 1       \* how often the clock advances during a run
MaxBatch == 2       \* largest page size
MaxPage == 4        \* longest page handed to the batch splitter on its own

(* Program constants *)

ARCHIVE_OLDER_THAN_DAYS == 1

Jobs == 1..2

TableName(j) == IF j = 1 THEN "wait_times" ELSE "park_operating_data"

DateColumn(j) == IF j = 1 THEN "timestamp" ELSE "data_date"

PrimaryKey(j) == "id"

----------------------------------------------------------------------------
(* Helpers *)

Range(s) == {s[i] : i \in 1..Len(s)}

Min(a, b) == IF a < b THEN a ELSE b

Contains(s, x) == \E i \in 1..Len(s) : s[i] = x

\* first_row_date.year / int(row_date[:4])
Year(ts) == 2024 + (ts \div TicksPerYear)

RowYear(r) == Year(r.ts)

\* str(col)
Str(v) == ToString(v)

ColumnValue(r, c) == IF c = "id" THEN r.id ELSE r.ts

\* [str(col) for col in row], the row taken in header order
Serialize(r, hdr) == [k \in 1..Len(hdr) |-> Str(ColumnValue(r, hdr[k]))]

IdsOf(s) == [i \in 1..Len(s) |-> s[i].id]

IdSet(S) == {r.id : r \in S}

----------------------------------------------------------------------------
(* Source reader: WHERE date < NOW() - INTERVAL ... ORDER BY date ASC LIMIT n *)

Cutoff(t) == t - ARCHIVE_OLDER_THAN_DAYS

IsExpired_AtOrBefore(r, t) == r.ts <= Cutoff(t)

IsExpired(r, t) == r.ts < Cutoff(t)

Expired(S, t) == {r \in S : IsExpired(r, t)}

Sorted_Unordered(p) == TRUE

Sorted(p) == \A i \in 1..Len(p) : \A k \in 1..Len(p) : i < k => p[i].ts <= p[k].ts

\* every page the query may return: rows with equal timestamps come in any order
Pages(S, n) ==
    LET k == Min(n, Cardinality(S))
    IN  {p \in [1..k -> S] :
            /\ \A i \in 1..k : \A m \in 1..k : i # m => p[i] # p[m]
            /\ Sorted(p)
            /\ \A r \in S \ {p[i] : i \in 1..k} : \A i \in 1..k : p[i].ts <= r.ts}

----------------------------------------------------------------------------
(* Batch splitter: the leading run of rows of the first row's year *)

RECURSIVE TakeYear(_, _, _)
TakeYear(rs, y, i) ==
    IF i > Len(rs) \/ RowYear(rs[i]) # y THEN <<>>
    ELSE <<rs[i]>> \o TakeYear(rs, y, i + 1)

LeadingSlice_WholePage(rs) == rs

LeadingSlice(rs) == IF rs = <<>> THEN <<>> ELSE TakeYear(rs, RowYear(rs[1]), 1)

IdsToDelete_WholePage(rs) == IdsOf(rs)

IdsToDelete(rs) == IdsOf(LeadingSlice(rs))

----------------------------------------------------------------------------
(* Destination resolver *)

SheetName_NoYear(year) == <<"Disney Archive - ", 0>>

SheetName(year) == <<"Disney Archive - ", year>>

FindWorkbook_NeverFound(d, name) == 0

\* gc.open(name): the first workbook of that name, 0 for SpreadsheetNotFound
FindWorkbook(d, name) ==
    IF \E i \in 1..Len(d) : d[i].name = name
    THEN CHOOSE i \in 1..Len(d) : d[i].name = name /\ \A k \in 1..(i-1) : d[k].name # name
    ELSE 0

\* sh.worksheet(title): the first worksheet of that title, 0 for WorksheetNotFound
FindWorksheet(wb, title) ==
    IF \E i \in 1..Len(wb.sheets) : wb.sheets[i].title = title
    THEN CHOOSE i \in 1..Len(wb.sheets) :
            wb.sheets[i].title = title /\ \A k \in 1..(i-1) : wb.sheets[k].title # title
    ELSE 0

ResolveOutcomes ==
    {"ok", "open_err", "create_err", "share_err", "ws_err", "addws_err", "hdr_err"}

\* get_spreadsheet_for_year under outcome o: [ok, dest, sh]
GetSpreadsheetForYear(d, year, o) ==
    LET name == SheetName(year)
        i    == FindWorkbook(d, name)
        d2   == Append(d, [name |-> name, shared |-> FALSE, sheets |-> <<>>])
    IN  IF o = "open_err" THEN [ok |-> FALSE, dest |-> d, sh |-> 0]
        ELSE IF i # 0 THEN [ok |-> TRUE, dest |-> d, sh |-> i]
        ELSE IF o = "create_err" THEN [ok |-> FALSE, dest |-> d, sh |-> 0]
        ELSE IF o = "share_err" THEN [ok |-> FALSE, dest |-> d2, sh |-> 0]
        ELSE [ok |-> TRUE,
              dest |-> [d2 EXCEPT ![Len(d2)].shared = TRUE],
              sh |-> Len(d2)]

\* get_or_create_worksheet under outcome o: [ok, dest, ws]
GetOrCreateWorksheet(d, s, title, hdr, o) ==
    LET k  == FindWorksheet(d[s], title)
        d2 == [d EXCEPT ![s].sheets = Append(@, [title |-> title, cells |-> <<>>])]
        n  == Len(d2[s].sheets)
    IN  IF o = "ws_err" THEN [ok |-> FALSE, dest |-> d, ws |-> 0]
        ELSE IF k # 0 THEN [ok |-> TRUE, dest |-> d, ws |-> k]
        ELSE IF o = "addws_err" THEN [ok |-> FALSE, dest |-> d, ws |-> 0]
        ELSE IF o = "hdr_err" THEN [ok |-> FALSE, dest |-> d2, ws |-> 0]
        ELSE [ok |-> TRUE,
              dest |-> [d2 EXCEPT ![s].sheets[n].cells = Append(@, hdr)],
              ws |-> n]

\* worksheet.append_rows(rows_to_append)
AppendRows(d, s, w, cells) == [d EXCEPT ![s].sheets[w].cells = @ \o cells]

----------------------------------------------------------------------------
(* Commit coordinator: DELETE ... WHERE pk IN ids *)

\* the text Python gives for a tuple of keys: "(1, 2)", and "(1,)" for one key
RECURSIVE JoinIds(_, _)
JoinIds(ids, i) ==
    IF i > Len(ids) THEN <<>>
    ELSE (IF i > 1 THEN <<",">> ELSE <<>>) \o <<ToString(ids[i])>> \o JoinIds(ids, i + 1)

TupleText(ids) ==
    <<"(">> \o JoinIds(ids, 1) \o (IF Len(ids) = 1 THEN <<",">> ELSE <<>>) \o <<")">>

IdsClause_NoSingleCase(ids) == TupleText(ids)

\* ids_tuple as it is put into the DELETE statement
IdsClause(ids) ==
    IF Len(ids) = 1 THEN <<"(", ToString(ids[1]), ")">> ELSE TupleText(ids)

\* the database accepts  ( value , value , ... )  with at least one value
InListValid(q) ==
    /\ Len(q) >= 3
    /\ Len(q) % 2 = 1
    /\ q[1] = "("
    /\ q[Len(q)] = ")"
    /\ \A i \in 2..(Len(q) - 1) :
          IF i % 2 = 0 THEN q[i] \notin {"(", ")", ","} ELSE q[i] = ","

InListValues(q) == {q[i] : i \in {k \in 2..(Len(q) - 1) : k % 2 = 0}}

DeleteRows_ByThreshold(S, ids, t) == S \ Expired(S, t)

DeleteRows_ByYear(S, ids, t) ==
    {r \in S : RowYear(r) \notin {RowYear(x) : x \in {y \in S : y.id \in Range(ids)}}}

DeleteRows_None(S, ids, t) == S

DeleteRows(S, ids, t) == {r \in S : ToString(r.id) \notin InListValues(IdsClause(ids))}

----------------------------------------------------------------------------
(* Process exit status: sys.exit(1) on every fatal path, 0 on falling off main *)

ExitStatusFor_AlwaysZero(cause) == 0

ExitStatusFor(cause) == IF cause = "complete" THEN 0 ELSE 1

\* what the loop does after worksheet.append_rows: go on to the delete, or return
AfterAppend_IgnoreError(ok) == "delete"

AfterAppend(ok) == IF ok THEN "delete" ELSE "return"

MessageFor_Generic(kind) == "An unexpected error occurred"

\* what the process prints when a job or the process ends this way
MessageFor(kind) ==
    CASE kind = "done"          -> "No more old rows found."
      [] kind = "abort_nodate"  -> "Error: Date column not found in headers."
      [] kind = "abort_resolve" -> "Skipping batch due to Google Sheet error"
      [] kind = "abort_write"   -> "Failed to append to Google Sheet"
      [] kind = "config"        -> "---CRITICAL ERROR: Environment variable not set.---"
      [] kind = "auth"          -> "Error authenticating with Google"
      [] kind = "complete"      -> "Archive run complete."
      [] OTHER                  -> "An unexpected error occurred"

IntRet(n) == [kind |-> "int", v |-> n]

NoneRet == [kind |-> "None", v |-> 0]

NotReturned == [kind |-> "pending", v |-> 0]

LogEntry(o, j, k, y, i) == [op |-> o, job |-> j, ok |-> k, year |-> y, ids |-> i]

----------------------------------------------------------------------------
(* Initial states *)

Now0 == MaxTs

\* the contents a table may have: ids 1..k in insertion order
Tables(n) ==
    UNION {{ {[id |-> i, ts |-> f[i]] : i \in 1..k} :
               f \in {g \in [1..k -> 0..MaxTs] : \A i \in 1..k : \A m \in 1..k : i < m => g[i] <= g[m]} } :
           k \in 0..n}

HeaderChoices(j) ==
    {<<PrimaryKey(j), DateColumn(j)>>, <<PrimaryKey(j)>>, <<DateColumn(j)>>}

\* position and locals of an instance of the script that has not started
NotStarted ==
    [pc |-> "load", job |-> 1, rows |-> <<>>, sh |-> 0, ws |-> 0, total |-> 0,
     headers |-> [j \in Jobs |-> <<>>],
     outcome |-> [j \in Jobs |-> "idle"],
     ret |-> [j \in Jobs |-> NotReturned],
     exitStatus |-> -1, exitCause |-> "none"]

InitCommon ==
    /\ pc = "load"
    /\ job = 1
    /\ dest = <<>>
    /\ rows = <<>>
    /\ sh = 0
    /\ ws = 0
    /\ total = 0
    /\ outcome = [j \in Jobs |-> "idle"]
    /\ ret = [j \in Jobs |-> NotReturned]
    /\ exitStatus = -1
    /\ exitCause = "none"
    /\ headers = [j \in Jobs |-> <<>>]
    /\ now = Now0
    /\ src0 = source
    /\ log = <<>>
    /\ page = <<>>
    /\ slices = <<>>
    /\ other = NotStarted

Init ==
    /\ source \in [Jobs -> Tables(MaxRows)]
    /\ Cardinality(source[1]) + Cardinality(source[2]) <= MaxRows
    /\ batchSize = MaxBatch
    /\ InitCommon

----------------------------------------------------------------------------
(* Leaving archive_table *)

\* return: main goes on to the next call, or falls off its end
Return(j, how, val) ==
    /\ outcome' = [outcome EXCEPT ![j] = how]
    /\ ret' = [ret EXCEPT ![j] = val]
    /\ rows' = <<>>
    /\ sh' = 0
    /\ ws' = 0
    /\ total' = 0
    /\ IF j = 1
       THEN /\ job' = 2
            /\ pc' = "header"
            /\ UNCHANGED <<exitStatus, exitCause>>
       ELSE /\ job' = j
            /\ pc' = "exited"
            /\ exitStatus' = ExitStatusFor("complete")
            /\ exitCause' = "complete"

\* an exception leaves archive_table and the connection block (rollback);
\* main's handler prints it and calls sys.exit(1)
Raise(j, how) ==
    /\ outcome' = [outcome EXCEPT ![j] = how]
    /\ pc' = "exited"
    /\ exitStatus' = ExitStatusFor("exception")
    /\ exitCause' = "exception"
    /\ UNCHANGED <<ret, rows, sh, ws, total, job>>

Exit(cause) ==
    /\ pc' = "exited"
    /\ exitStatus' = ExitStatusFor(cause)
    /\ exitCause' = cause
    /\ UNCHANGED <<job, source, headers, dest, rows, sh, ws, total, outcome, ret,
                   now, batchSize, src0, log, page, slices, other>>

----------------------------------------------------------------------------
(* Start-up *)

LoadSecrets ==
    /\ pc = "load"
    /\ pc' = "auth"
    /\ UNCHANGED <<job, source, headers, dest, rows, sh, ws, total, outcome, ret,
                   exitStatus, exitCause, now, batchSize, src0, log, page, slices, other>>

ConfigError ==
    /\ pc = "load"
    /\ Exit("config")

AuthGoogle ==
    /\ pc = "auth"
    /\ pc' = "connect"
    /\ UNCHANGED <<job, source, headers, dest, rows, sh, ws, total, outcome, ret,
                   exitStatus, exitCause, now, batchSize, src0, log, page, slices, other>>

AuthError ==
    /\ pc = "auth"
    /\ Exit("auth")

Connect ==
    /\ pc = "connect"
    /\ pc' = "header"
    /\ job' = 1
    /\ UNCHANGED <<source, headers, dest, rows, sh, ws, total, outcome, ret,
                   exitStatus, exitCause, now, batchSize, src0, log, page, slices, other>>

ConnectError ==
    /\ pc = "connect"
    /\ Exit("connect")

----------------------------------------------------------------------------
(* archive_table *)

\* headers = [desc[0] for desc in cursor.description]: the table's columns are
\* read from the database; the date column is among them
FetchHeaders ==
    /\ pc = "header"
    /\ \E h \in HeaderChoices(job) :
        /\ Contains(h, DateColumn(job))
        /\ headers' = [headers EXCEPT ![job] = h]
    /\ pc' = "fetch"
    /\ outcome' = [outcome EXCEPT ![job] = "running"]
    /\ total' = 0
    /\ UNCHANGED <<job, source, dest, rows, sh, ws, ret, exitStatus,
                   exitCause, now, batchSize, src0, log, page, slices, other>>

\* headers.index(date_column) raises ValueError: return 0
HeaderNoDate ==
    /\ pc = "header"
    /\ \E h \in HeaderChoices(job) :
        /\ ~Contains(h, DateColumn(job))
        /\ headers' = [headers EXCEPT ![job] = h]
    /\ Return(job, "abort_nodate", IntRet(0))
    /\ UNCHANGED <<source, dest, now, batchSize, src0, log, page, slices, other>>

\* a query of the source raises (header query or page query)
QueryError ==
    /\ pc \in {"header", "fetch"}
    /\ Raise(job, "raise_db")
    /\ UNCHANGED <<source, headers, dest, now, batchSize, src0, log, page, slices, other>>

\* the clock read by NOW() advances between two page queries; the clock is
\* read by the page query alone, so only an advance that changes the query's
\* answer is a step
Tick ==
    /\ pc = "fetch"
    /\ \E t \in (now + 1)..(Now0 + MaxTicks) :
        /\ Expired(source[job], t) # Expired(source[job], now)
        /\ now' = t
    /\ UNCHANGED <<pc, job, source, headers, dest, rows, sh, ws, total, outcome, ret,
                   exitStatus, exitCause, batchSize, src0, log, page, slices, other>>

Fetch ==
    /\ pc = "fetch"
    /\ \E p \in Pages(Expired(source[job], now), batchSize) :
        /\ p # <<>>
        /\ rows' = p
        /\ pc' = "resolve"
        /\ log' = Append(log, LogEntry("fetch", job, TRUE, 0, IdsOf(p)))
    /\ UNCHANGED <<job, source, headers, dest, sh, ws, total, outcome, ret,
                   exitStatus, exitCause, now, batchSize, src0, page, slices, other>>

FetchEmpty ==
    /\ pc = "fetch"
    /\ Expired(source[job], now) = {}
    /\ log' = Append(log, LogEntry("fetch", job, TRUE, 0, <<>>))
    /\ Return(job, "done", IntRet(total))
    /\ UNCHANGED <<source, headers, dest, now, batchSize, src0, page, slices, other>>

\* result of both resolver calls under outcome o: [ok, dest, sh, ws]
ResolveResult(d, y, j, o) ==
    LET r1 == GetSpreadsheetForYear(d, y, o)
        r2 == IF r1.ok
              THEN GetOrCreateWorksheet(r1.dest, r1.sh, TableName(j), headers[j], o)
              ELSE [ok |-> FALSE, dest |-> r1.dest, ws |-> 0]
    IN  [ok |-> r2.ok, dest |-> r2.dest, sh |-> r1.sh, ws |-> r2.ws]

Resolve ==
    /\ pc = "resolve"
    /\ LET y == RowYear(rows[1])
           r == ResolveResult(dest, y, job, "ok")
       IN  /\ dest' = r.dest
           /\ sh' = r.sh
           /\ ws' = r.ws
           /\ log' = Append(log, LogEntry("resolve", job, TRUE, y, <<>>))
    /\ pc' = "append"
    /\ UNCHANGED <<job, source, headers, rows, total, outcome, ret, exitStatus,
                   exitCause, now, batchSize, src0, page, slices, other>>

ResolveError ==
    /\ pc = "resolve"
    /\ \E o \in ResolveOutcomes :
        LET y == RowYear(rows[1])
            r == ResolveResult(dest, y, job, o)
        IN  /\ ~r.ok
            /\ dest' = r.dest
            /\ log' = Append(log, LogEntry("resolve", job, FALSE, y, <<>>))
    /\ Return(job, "abort_resolve", IntRet(total))
    /\ UNCHANGED <<source, headers, now, batchSize, src0, page, slices, other>>

\* headers.index(primary_key) raises ValueError on the first row of the loop
AppendPkMissing ==
    /\ pc = "append"
    /\ ~Contains(headers[job], PrimaryKey(job))
    /\ Raise(job, "raise_pk")
    /\ UNCHANGED <<source, headers, dest, now, batchSize, src0, log, page, slices, other>>

AppendOk ==
    /\ pc = "append"
    /\ Contains(headers[job], PrimaryKey(job))
    /\ LET slice == LeadingSlice(rows)
           cells == [i \in 1..Len(slice) |-> Serialize(slice[i], headers[job])]
       IN  IF slice = <<>>
           THEN /\ pc' = "fetch"
                /\ UNCHANGED <<dest, log>>
           ELSE /\ dest' = AppendRows(dest, sh, ws, cells)
                /\ log' = Append(log, LogEntry("append", job, TRUE,
                                               RowYear(rows[1]), IdsOf(slice)))
                /\ pc' = AfterAppend(TRUE)
    /\ UNCHANGED <<job, source, headers, rows, sh, ws, total, outcome, ret,
                   exitStatus, exitCause, now, batchSize, src0, page, slices, other>>

AppendError ==
    /\ pc = "append"
    /\ Contains(headers[job], PrimaryKey(job))
    /\ LeadingSlice(rows) # <<>>
    /\ log' = Append(log, LogEntry("append", job, FALSE, RowYear(rows[1]),
                                   IdsOf(LeadingSlice(rows))))
    /\ IF AfterAppend(FALSE) = "return"
       THEN Return(job, "abort_write", NoneRet)
       ELSE /\ pc' = AfterAppend(FALSE)
            /\ UNCHANGED <<job, rows, sh, ws, total, outcome, ret, exitStatus, exitCause>>
    /\ UNCHANGED <<source, headers, dest, now, batchSize, src0, page, slices, other>>

DeleteOk ==
    /\ pc = "delete"
    /\ InListValid(IdsClause(IdsToDelete(rows)))
    /\ source' = [source EXCEPT ![job] = DeleteRows(@, IdsToDelete(rows), now)]
    /\ total' = total + Len(LeadingSlice(rows))
    /\ log' = Append(log, LogEntry("delete", job, TRUE, RowYear(rows[1]),
                                   IdsToDelete(rows)))
    /\ pc' = "fetch"
    /\ UNCHANGED <<job, headers, dest, rows, sh, ws, outcome, ret, exitStatus,
                   exitCause, now, batchSize, src0, page, slices, other>>

\* cursor.execute(DELETE) or db_conn.commit() raises: nothing is committed
DeleteError ==
    /\ pc = "delete"
    /\ log' = Append(log, LogEntry("delete", job, FALSE, RowYear(rows[1]),
                                   IdsToDelete(rows)))
    /\ Raise(job, "raise_delete")
    /\ UNCHANGED <<source, headers, dest, now, batchSize, src0, page, slices, other>>

Next ==
    \/ LoadSecrets
    \/ ConfigError
    \/ AuthGoogle
    \/ AuthError
    \/ Connect
    \/ ConnectError
    \/ FetchHeaders
    \/ HeaderNoDate
    \/ QueryError
    \/ Tick
    \/ Fetch
    \/ FetchEmpty
    \/ Resolve
    \/ ResolveError
    \/ AppendPkMissing
    \/ AppendOk
    \/ AppendError
    \/ DeleteOk
    \/ DeleteError

Spec == Init /\ [][Next]_vars

----------------------------------------------------------------------------
(* Reading the history *)

\* the keys of the rows of job j whose append returned success
AppendedIds(j) ==
    UNION {Range(log[i].ids) :
             i \in {k \in 1..Len(log) : log[k].job = j /\ log[k].op = "append" /\ log[k].ok}}

\* the keys of job j whose delete was committed
DeletedIds(j) ==
    UNION {Range(log[i].ids) :
             i \in {k \in 1..Len(log) : log[k].job = j /\ log[k].op = "delete" /\ log[k].ok}}

\* row r of job j is in a worksheet of that table in the destination
InDest(j, r) ==
    \E b \in 1..Len(dest) : \E w \in 1..Len(dest[b].sheets) :
        /\ dest[b].sheets[w].title = TableName(j)
        /\ Contains(dest[b].sheets[w].cells, Serialize(r, headers[j]))

JobLog(j) == SelectSeq(log, LAMBDA e : e.job = j)

----------------------------------------------------------------------------
(* C1: every row that was in a source table when the run started is still in
   the source or was part of an append that returned success and is in the
   destination; every committed delete names only keys whose append
   succeeded earlier in the run. *)
C1_NoDeleteBeforeConfirmedWrite ==
    /\ \A j \in Jobs : \A r \in src0[j] :
          \/ r \in source[j]
          \/ r.id \in AppendedIds(j) /\ InDest(j, r)
    /\ \A i \in 1..Len(log) :
          (log[i].op = "delete" /\ log[i].ok) =>
              \A x \in Range(log[i].ids) :
                  \E k \in 1..(i - 1) :
                      /\ log[k].op = "append"
                      /\ log[k].ok
                      /\ log[k].job = log[i].job
                      /\ x \in Range(log[k].ids)

\* a job aborted on a failed append after an earlier slice was deleted, and
\* the page of that earlier slice held rows of a later year as well
C1_Witness ==
    /\ outcome[1] = "abort_write"
    /\ DeletedIds(1) # {}
    /\ source[1] # {}
    /\ \E i \in 1..Len(log) :
          /\ log[i].op = "fetch"
          /\ log[i].job = 1
          /\ i + 2 <= Len(log)
          /\ log[i + 2].op = "append"
          /\ log[i + 2].ok
          /\ Len(log[i + 2].ids) < Len(log[i].ids)

(* C2: when the N-th append of a job fails (the N-1 before it succeeded),
   the keys left in the source after the job are the original keys minus
   exactly the keys of the rows of appends 1..N-1. *)
C2_NoLossOnFailedWrite ==
    \A j \in Jobs :
        outcome[j] = "abort_write" =>
            /\ IdSet(source[j]) = IdSet(src0[j]) \ AppendedIds(j)
            /\ source[j] \subseteq src0[j]

\* the second append of job 1 failed: one slice is gone, the rest is kept
C2_Witness ==
    /\ outcome[1] = "abort_write"
    /\ AppendedIds(1) # {}
    /\ IdSet(source[1]) # {}
    /\ IdSet(source[1]) # IdSet(src0[1])

(* C3: a failed append ends the job: the call returns None, no delete is
   issued for that slice and the job performs no fetch, append or delete
   after it. *)
C3_FailedAppendIsTerminal ==
    \A i \in 1..Len(log) :
        (log[i].op = "append" /\ ~log[i].ok) =>
            /\ outcome[log[i].job] = "abort_write"
            /\ ret[log[i].job] = NoneRet
            /\ \A k \in (i + 1)..Len(log) : log[k].job # log[i].job
            /\ (job = log[i].job => pc = "exited")

\* job 1 aborted on a failed append and job 2 went on to work afterwards
C3_Witness ==
    \E i \in 1..Len(log) :
        /\ log[i].op = "append"
        /\ ~log[i].ok
        /\ log[i].job = 1
        /\ \E k \in (i + 1)..Len(log) : log[k].job = 2 /\ log[k].op = "delete"

\* the ways a job can end in failure
FailureOutcomes ==
    {"abort_write", "abort_resolve", "abort_nodate", "raise_pk", "raise_delete"}

(* C4: the two jobs are independent: whatever failure ends the first job
   (write failure, resolve failure, delete or commit failure, structural
   anomaly), the second job is still started and runs to its own end. *)
C4_SecondJobAlwaysRuns ==
    (pc = "exited" /\ outcome[1] \in FailureOutcomes) => outcome[2] # "idle"

(* C5: when resolving the workbook or the sub-table fails in an iteration,
   no append and no delete is attempted in that iteration, earlier slices
   stay archived and deleted, the rows of the failing partition stay in the
   source, the job ends, and the process exit status is non-zero. *)
C5_ResolveFailureExitsNonZero ==
    \A j \in Jobs :
        outcome[j] = "abort_resolve" =>
            /\ \A i \in 1..Len(log) :
                  (log[i].op = "resolve" /\ ~log[i].ok /\ log[i].job = j) =>
                      \A k \in (i + 1)..Len(log) : log[k].job # j
            /\ IdSet(source[j]) = IdSet(src0[j]) \ AppendedIds(j)
            /\ \A r \in src0[j] : r \notin source[j] => InDest(j, r)
            /\ (pc = "exited" => exitStatus # 0)

(* C6: the process exits 0 when every job completes (also when there was
   nothing to archive) and non-zero on a configuration error or a
   connectivity error (authentication, database connection); in those
   non-zero cases no fetch, append or delete has been performed. *)
C6_ExitStatus ==
    pc = "exited" =>
        /\ (\A j \in Jobs : outcome[j] = "done") => exitStatus = 0
        /\ exitCause \in {"config", "auth", "connect"} =>
              /\ exitStatus # 0
              /\ log = <<>>
              /\ source = src0
              /\ dest = <<>>
        /\ exitStatus \in {0, 1}

\* the database connection failed: exit 1 with nothing done
C6_Witness ==
    /\ pc = "exited"
    /\ exitCause = "connect"
    /\ exitStatus = 1
    /\ \E j \in Jobs : Expired(source[j], now) # {}

----------------------------------------------------------------------------
(* The batch splitter on its own: the loop's slicing applied to a page and
   then to what it left, as the next iterations see it once the slice is
   deleted and nothing else changed *)

\* the pages the reader can return: rows ascending by timestamp
SortedPages ==
    UNION {{ [i \in 1..k |-> [id |-> i, ts |-> f[i]]] :
               f \in {g \in [1..k -> 0..MaxTs] : \A i \in 1..k : \A m \in 1..k : i < m => g[i] <= g[m]} } :
           k \in 1..MaxPage}

InitSplit ==
    /\ page \in SortedPages
    /\ rows = page
    /\ slices = <<>>
    /\ pc = "split"
    /\ job = 1
    /\ source = [j \in Jobs |-> {}]
    /\ src0 = source
    /\ headers = [j \in Jobs |-> <<PrimaryKey(j), DateColumn(j)>>]
    /\ dest = <<>>
    /\ sh = 0
    /\ ws = 0
    /\ total = 0
    /\ outcome = [j \in Jobs |-> "idle"]
    /\ ret = [j \in Jobs |-> NotReturned]
    /\ exitStatus = -1
    /\ exitCause = "none"
    /\ now = Now0
    /\ batchSize = MaxPage
    /\ log = <<>>
    /\ other = NotStarted

SplitStep ==
    /\ pc = "split"
    /\ rows # <<>>
    /\ LET slice == LeadingSlice(rows)
       IN  /\ slices' = Append(slices, slice)
           /\ rows' = SubSeq(rows, Len(slice) + 1, Len(rows))
    /\ UNCHANGED <<pc, job, source, headers, dest, sh, ws, total, outcome, ret,
                   exitStatus, exitCause, now, batchSize, src0, log, page, other>>

SpecSplit == InitSplit /\ [][SplitStep]_vars

RECURSIVE Flatten(_)
Flatten(ss) == IF ss = <<>> THEN <<>> ELSE Head(ss) \o Flatten(Tail(ss))

SingleYear(rs) == \A i \in 1..Len(rs) : RowYear(rs[i]) = RowYear(rs[1])

(* C7: for every page sorted ascending by timestamp, also one spanning three
   or more years, every slice is non-empty, holds rows of one year only and
   is the maximal leading run of its year; the slices in order followed by
   what is still unconsumed are the page; a page of one year gives one slice
   equal to the page and no remainder. *)
C7_SlicesReconstructPage ==
    /\ Flatten(slices) \o rows = page
    /\ \A i \in 1..Len(slices) :
          /\ slices[i] # <<>>
          /\ SingleYear(slices[i])
          /\ i < Len(slices) => RowYear(slices[i + 1][1]) # RowYear(slices[i][1])
    /\ (slices # <<>> /\ rows # <<>>) =>
          RowYear(rows[1]) # RowYear(slices[Len(slices)][1])
    /\ (slices # <<>> /\ SingleYear(page)) => (slices = <<page>> /\ rows = <<>>)

\* a page spanning three years, split to its end
C7_Witness ==
    /\ pc = "split"
    /\ rows = <<>>
    /\ Len(slices) = 3
    /\ Len(page) > 3

----------------------------------------------------------------------------
(* The end-to-end scenario: 3 expired rows of 2024 and 2 of 2025 in the first
   table, a page size of at least 5 *)

ScenarioTables ==
    {T \in Tables(5) :
        /\ Cardinality(T) = 5
        /\ \A r \in T : IsExpired(r, Now0)
        /\ Cardinality({r \in T : RowYear(r) = 2024}) = 3
        /\ Cardinality({r \in T : RowYear(r) = 2025}) = 2}

InitScenario ==
    /\ source \in [Jobs -> Tables(5)]
    /\ source[1] \in ScenarioTables
    /\ Cardinality(source[2]) <= 1
    /\ batchSize \in 5..6
    /\ InitCommon

SpecScenario == InitScenario /\ [][Next]_vars

\* the worksheet of job j in the workbook of year y holds exactly these cells
SheetCells(y, j) ==
    LET b == FindWorkbook(dest, SheetName(y))
    IN  IF b = 0 THEN <<>>
        ELSE LET w == FindWorksheet(dest[b], TableName(j))
             IN  IF w = 0 THEN <<>> ELSE dest[b].sheets[w].cells

(* C8: with 3 expired rows of 2024 and 2 of 2025, a page of at least 5 and no
   failure, the job does exactly: fetch the 5 rows, append the 3 rows of 2024
   to the 2024 workbook (created, with a worksheet named after the table),
   delete those 3 keys, fetch the 2 rows, append them to the 2025 workbook
   (created likewise), delete those 2 keys, fetch nothing, and ends done. *)
C8_ScenarioSequence ==
    outcome[1] = "done" =>
        LET L    == JobLog(1)
            k24  == {r.id : r \in {x \in src0[1] : RowYear(x) = 2024}}
            k25  == {r.id : r \in {x \in src0[1] : RowYear(x) = 2025}}
        IN  /\ Len(L) = 9
            /\ [i \in 1..9 |-> L[i].op] =
                  <<"fetch", "resolve", "append", "delete",
                    "fetch", "resolve", "append", "delete", "fetch">>
            /\ \A i \in 1..9 : L[i].ok
            /\ Range(L[1].ids) = k24 \cup k25 /\ Len(L[1].ids) = 5
            /\ L[2].year = 2024
            /\ L[3].year = 2024 /\ Range(L[3].ids) = k24 /\ Len(L[3].ids) = 3
            /\ L[4].ids = L[3].ids
            /\ Range(L[5].ids) = k25 /\ Len(L[5].ids) = 2
            /\ L[6].year = 2025
            /\ L[7].year = 2025 /\ Range(L[7].ids) = k25 /\ Len(L[7].ids) = 2
            /\ L[8].ids = L[7].ids
            /\ L[9].ids = <<>>
            /\ source[1] = {}
            /\ ret[1] = IntRet(5)
            /\ FindWorkbook(dest, SheetName(2024)) # 0
            /\ FindWorkbook(dest, SheetName(2025)) # 0
            /\ FindWorkbook(dest, SheetName(2024)) # FindWorkbook(dest, SheetName(2025))
            /\ Len(SheetCells(2024, 1)) = 4
            /\ SheetCells(2024, 1)[1] = headers[1]
            /\ Len(SheetCells(2025, 1)) = 3
            /\ SheetCells(2025, 1)[1] = headers[1]
            /\ \A r \in src0[1] :
                  Contains(SheetCells(RowYear(r), 1), Serialize(r, headers[1]))

\* the scenario ran to its end without a failure
C8_Witness ==
    /\ outcome[1] = "done"
    /\ Cardinality(src0[1]) = 5
    /\ Len(dest) = 2
    /\ pc = "exited"

----------------------------------------------------------------------------
(* C9: however often the resolver is called for one year and one table, the
   destination never holds two workbooks of one name nor two worksheets of
   one title in a workbook: a workbook or worksheet is created only when the
   lookup finds none. *)
C9_NoDuplicateDestination ==
    /\ \A i \in 1..Len(dest) : \A k \in 1..Len(dest) :
          i # k => dest[i].name # dest[k].name
    /\ \A b \in 1..Len(dest) :
          \A i \in 1..Len(dest[b].sheets) : \A k \in 1..Len(dest[b].sheets) :
              i # k => dest[b].sheets[i].title # dest[b].sheets[k].title

\* the resolver succeeded twice for the same year and table, and again for
\* the same year and the other table: one workbook, two worksheets
C9_Witness ==
    /\ \E i \in 1..Len(log) : \E k \in 1..Len(log) :
          /\ i < k
          /\ log[i].op = "resolve" /\ log[k].op = "resolve"
          /\ log[i].ok /\ log[k].ok
          /\ log[i].job = log[k].job
          /\ log[i].year = log[k].year
    /\ \E b \in 1..Len(dest) : Len(dest[b].sheets) = 2

(* C10: only rows whose timestamp is strictly before NOW() minus the
   retention threshold are ever fetched, appended or deleted; a row at the
   cutoff or after it stays in the source and never reaches the destination. *)
C10_OnlyExpiredRowsTouched ==
    /\ \A i \in 1..Len(rows) : IsExpired(rows[i], now)
    /\ \A j \in Jobs : \A r \in src0[j] :
          r.ts >= Cutoff(now) =>
              /\ r \in source[j]
              /\ \A i \in 1..Len(log) :
                    log[i].job = j => r.id \notin Range(log[i].ids)
              /\ (headers[j] # <<>> => ~InDest(j, r))

\* a job archived its expired rows and finished while a row exactly at the
\* cutoff stayed in the source
C10_Witness ==
    /\ outcome[1] = "done"
    /\ DeletedIds(1) # {}
    /\ \E r \in source[1] : r.ts = Cutoff(now)

----------------------------------------------------------------------------
(* C13: a slice of exactly one row gives a well-formed delete that removes
   exactly that one row from the source and no other, as a slice of several
   rows removes exactly its rows. *)
C13_SingleElementDelete ==
    /\ (pc = "delete" /\ Len(IdsToDelete(rows)) = 1) =>
          /\ InListValid(IdsClause(IdsToDelete(rows)))
          /\ InListValues(IdsClause(IdsToDelete(rows))) = {ToString(rows[1].id)}
          /\ DeleteRows(source[job], IdsToDelete(rows), now) = source[job] \ {rows[1]}
    /\ pc = "delete" =>
          /\ InListValid(IdsClause(IdsToDelete(rows)))
          /\ DeleteRows(source[job], IdsToDelete(rows), now) =
                source[job] \ Range(LeadingSlice(rows))
    /\ \A j \in Jobs : IdSet(source[j]) = IdSet(src0[j]) \ DeletedIds(j)

\* a one-row slice was deleted while other rows stayed in the table
C13_Witness ==
    /\ pc = "fetch"
    /\ Len(log) > 0
    /\ log[Len(log)].op = "delete"
    /\ log[Len(log)].ok
    /\ Len(log[Len(log)].ids) = 1
    /\ Cardinality(source[job]) = Cardinality(src0[job]) - 1
    /\ Cardinality(source[job]) >= 1

----------------------------------------------------------------------------
(* C15: a delete step removes from the source exactly the rows of the slice
   just appended: the unconsumed rest of the page, expired rows outside the
   page, rows not yet expired, the other table and the destination are left
   as they were. *)
C15_DeleteFrame ==
    [][(pc = "delete" /\ pc' = "fetch") =>
          /\ source'[job] = source[job] \ Range(LeadingSlice(rows))
          /\ \A j \in Jobs : j # job => source'[j] = source[j]
          /\ dest' = dest
          /\ Range(LeadingSlice(rows)) \subseteq source[job]]_vars

\* a slice was deleted; the rest of its page and a row not yet expired stayed
C15_Witness ==
    /\ pc = "fetch"
    /\ Len(log) >= 4
    /\ log[Len(log)].op = "delete"
    /\ log[Len(log)].ok
    /\ log[Len(log) - 3].op = "fetch"
    /\ Len(log[Len(log) - 3].ids) > Len(log[Len(log)].ids)
    /\ \A x \in Range(log[Len(log) - 3].ids) \ Range(log[Len(log)].ids) :
          x \in IdSet(source[job])
    /\ \E r \in source[job] : ~IsExpired(r, now)

\* timestamp of the row of job j with key x
TsOf(j, x) == (CHOOSE r \in src0[j] : r.id = x).ts

\* the keys of job j in the order they were appended / deleted
OpSeq(j, o) ==
    LET L == SelectSeq(log, LAMBDA e : e.job = j /\ e.op = o /\ e.ok)
    IN  Flatten([i \in 1..Len(L) |-> L[i].ids])

NonDecreasing(j, q) ==
    \A a \in 1..(Len(q) - 1) :
        /\ TsOf(j, q[a]) <= TsOf(j, q[a + 1])
        /\ Year(TsOf(j, q[a])) <= Year(TsOf(j, q[a + 1]))

(* C16: within a job the rows appended and the rows deleted are each
   non-decreasing in timestamp over the whole run, so every row of a year is
   appended and deleted before any row of a later year is appended. *)
C16_AscendingOrder ==
    \A j \in Jobs :
        /\ NonDecreasing(j, OpSeq(j, "append"))
        /\ NonDecreasing(j, OpSeq(j, "delete"))
        /\ \A i \in 1..Len(log) :
              (log[i].job = j /\ log[i].op = "delete" /\ log[i].ok) =>
                  \A k \in (i + 1)..Len(log) :
                      (log[k].job = j /\ log[k].op = "append" /\ log[k].ok) =>
                          log[i].year <= log[k].year

\* a job appended and deleted rows of two years in several iterations
C16_Witness ==
    /\ outcome[1] = "done"
    /\ Len(OpSeq(1, "delete")) = 3
    /\ \E a \in Range(OpSeq(1, "append")) : \E b \in Range(OpSeq(1, "append")) :
          Year(TsOf(1, a)) < Year(TsOf(1, b))

\* the years job j resolved a destination for, and how often it did
ResolvedYears(j) ==
    {log[i].year : i \in {k \in 1..Len(log) : log[k].job = j /\ log[k].op = "resolve"}}

ResolveCount(j) == Cardinality({k \in 1..Len(log) : log[k].job = j /\ log[k].op = "resolve"})

(* C17: within one run of a job the destination resolver is invoked once for
   each distinct year met: the number of workbook lookups equals the number
   of distinct years, not the number of iterations. *)
C17_ResolveOncePerYear ==
    \A j \in Jobs : ResolveCount(j) = Cardinality(ResolvedYears(j))

\* what the process reports for a failure of this kind: the message it
\* prints and its exit status (after a write or resolve failure main goes on)
Report(kind) ==
    <<MessageFor(kind),
      ExitStatusFor(IF kind \in {"abort_write", "abort_resolve"} THEN "complete" ELSE kind)>>

(* C19: when the delete or the commit raises after a successful append, the
   failure is fatal for that job, the rows of the slice are in the source and
   in the destination, and what the process reports differs from what it
   reports for a write failure, a resolve failure and a connectivity failure. *)
C19_DeleteFailureDistinct ==
    \A j \in Jobs :
        outcome[j] = "raise_delete" =>
            /\ pc = "exited"
            /\ exitStatus # 0
            /\ \A r \in Range(LeadingSlice(rows)) : r \in source[j] /\ InDest(j, r)
            /\ \A k \in {"abort_write", "abort_resolve", "connect", "auth"} :
                  Report("exception") # Report(k)

(* C20: a table whose header lacks the timestamp column or the primary-key
   column aborts its job: the job ends without any append of rows and without
   any delete, and what it reports differs from what a completed job
   reports. *)
C20_StructuralAnomalyAborts ==
    \A j \in Jobs :
        outcome[j] \in {"abort_nodate", "raise_pk"} =>
            /\ \A i \in 1..Len(log) :
                  log[i].job = j => log[i].op \notin {"append", "delete"}
            /\ source[j] = src0[j]
            /\ \A r \in src0[j] : ~InDest(j, r)
            /\ (~Contains(headers[j], DateColumn(j)) \/ ~Contains(headers[j], PrimaryKey(j)))
            /\ MessageFor(outcome[j]) # MessageFor("done")
            /\ (outcome[j] = "abort_nodate" => ret[j] = IntRet(0))
            /\ (outcome[j] = "raise_pk" => pc = "exited" /\ exitStatus = 1)
            /\ (job = j => pc = "exited")

\* the first table lacks its key column, found once a page of expired rows
\* was fetched and the destination resolved
C20_Witness ==
    /\ outcome[1] = "raise_pk"
    /\ Expired(source[1], now) # {}
    /\ Len(dest) = 1


----------------------------------------------------------------------------
(* A run that is terminated and run again: no call fails, the process is
   killed once at any point, and the next invocation starts from the top of
   main with the source and the destination as the killed run left them *)

FullHeader(j) == <<PrimaryKey(j), DateColumn(j)>>

\* the table has both its key column and its date column
FetchAllHeaders ==
    /\ FetchHeaders
    /\ headers'[job] = FullHeader(job)

Killed == \E i \in 1..Len(log) : log[i].op = "kill"

\* the process is terminated: its locals are gone, a DELETE not yet committed
\* is rolled back by the server, and what was appended stays appended; the
\* next invocation starts at the top of main. The history records the slice
\* that was appended and not yet deleted.
Kill ==
    /\ pc # "exited"
    /\ ~Killed
    /\ log' = Append(log, LogEntry("kill", job, TRUE, 0,
                                   IF pc = "delete" THEN IdsToDelete(rows) ELSE <<>>))
    /\ pc' = "load"
    /\ job' = 1
    /\ rows' = <<>>
    /\ sh' = 0
    /\ ws' = 0
    /\ total' = 0
    /\ headers' = [j \in Jobs |-> <<>>]
    /\ outcome' = [j \in Jobs |-> "idle"]
    /\ ret' = [j \in Jobs |-> NotReturned]
    /\ UNCHANGED <<source, dest, exitStatus, exitCause, now, batchSize, src0, page, slices, other>>

NextRerun ==
    \/ LoadSecrets
    \/ AuthGoogle
    \/ Connect
    \/ FetchAllHeaders
    \/ Tick
    \/ Fetch
    \/ FetchEmpty
    \/ Resolve
    \/ AppendOk
    \/ DeleteOk
    \/ Kill

\* the second table holds at most one row
InitRerun ==
    /\ Init
    /\ Cardinality(source[2]) <= 1

SpecRerun == InitRerun /\ [][NextRerun]_vars

\* how many times row r of job j is in the worksheets of that table, over
\* all workbooks
CountIn(cells, c) == Cardinality({i \in 1..Len(cells) : cells[i] = c})

RECURSIVE CountInSheets(_, _, _, _)
CountInSheets(ss, title, c, w) ==
    IF w > Len(ss) THEN 0
    ELSE (IF ss[w].title = title THEN CountIn(ss[w].cells, c) ELSE 0)
         + CountInSheets(ss, title, c, w + 1)

RECURSIVE CountInBooks(_, _, _, _)
CountInBooks(d, title, c, b) ==
    IF b > Len(d) THEN 0
    ELSE CountInSheets(d[b].sheets, title, c, 1) + CountInBooks(d, title, c, b + 1)

CountInDest(j, r) == CountInBooks(dest, TableName(j), Serialize(r, FullHeader(j)), 1)

\* the keys of the slice that was appended and not yet deleted at the kill
KilledSlice(j) ==
    UNION {Range(log[i].ids) : i \in {k \in 1..Len(log) : log[k].op = "kill" /\ log[k].job = j}}

(* C11: when the process is terminated at any point and run again to its end
   without a failure, no row is lost: every row whose delete was not
   committed is still in the source; once the re-run has ended, every row
   that was expired at the start is in the destination at least once and no
   longer in the source; and a row is in the destination more than once only
   if it was in the slice appended and not yet deleted at the kill. *)
C11_RerunLosesNothing ==
    \A j \in Jobs : \A r \in src0[j] :
        LET n == CountInDest(j, r)
        IN  /\ r.id \notin DeletedIds(j) => r \in source[j]
            /\ r \notin source[j] => n >= 1
            /\ n > 1 => (n = 2 /\ Killed /\ r.id \in KilledSlice(j))
            /\ (Killed /\ pc = "exited" /\ IsExpired(r, Now0)) =>
                  (n >= 1 /\ r \notin source[j])

\* killed between an append and its delete, run again to the end: the rows of
\* that slice are in the destination twice, another archived row once
C11_Witness ==
    /\ Killed
    /\ pc = "exited"
    /\ exitCause = "complete"
    /\ \E r \in src0[1] : r.id \in KilledSlice(1) /\ CountInDest(1, r) = 2
    /\ \E r \in src0[1] : IsExpired(r, Now0) /\ CountInDest(1, r) = 1


----------------------------------------------------------------------------
(* A sequence of runs in which resolver calls can fail: when a run has ended,
   the schedule invokes the script again on the same source and destination *)

Restarted == \E i \in 1..Len(log) : log[i].op = "start"

\* the next invocation of the script, after the previous one has exited
Restart ==
    /\ pc = "exited"
    /\ ~Restarted
    /\ log' = Append(log, LogEntry("start", 1, TRUE, 0, <<>>))
    /\ pc' = "load"
    /\ job' = 1
    /\ rows' = <<>>
    /\ sh' = 0
    /\ ws' = 0
    /\ total' = 0
    /\ headers' = [j \in Jobs |-> <<>>]
    /\ outcome' = [j \in Jobs |-> "idle"]
    /\ ret' = [j \in Jobs |-> NotReturned]
    /\ exitStatus' = -1
    /\ exitCause' = "none"
    /\ UNCHANGED <<source, dest, now, batchSize, src0, page, slices, other>>

NextRuns ==
    \/ LoadSecrets
    \/ AuthGoogle
    \/ Connect
    \/ FetchAllHeaders
    \/ Tick
    \/ Fetch
    \/ FetchEmpty
    \/ Resolve
    \/ ResolveError
    \/ AppendOk
    \/ DeleteOk
    \/ Restart

SpecRuns == InitRerun /\ [][NextRuns]_vars

IsHeaderRow(c) == \E j \in Jobs : c \in HeaderChoices(j)

(* C18: across runs, also after a run in which a destination call failed
   between creating the worksheet and writing its header, every worksheet
   that holds rows has the header of its table as its first row and no
   header after it. *)
C18_HeaderFirstExactlyOnce ==
    \A b \in 1..Len(dest) : \A w \in 1..Len(dest[b].sheets) :
        LET cells == dest[b].sheets[w].cells
        IN  cells # <<>> =>
              /\ \E j \in Jobs : dest[b].sheets[w].title = TableName(j)
                                 /\ cells[1] = FullHeader(j)
              /\ \A i \in 2..Len(cells) : ~IsHeaderRow(cells[i])


----------------------------------------------------------------------------
(* A single run in which no call fails and the tables have their key and
   date columns. The script is sequential code: a step that can be taken is
   taken. The clock advances a bounded number of times. *)

NextOk ==
    \/ LoadSecrets
    \/ AuthGoogle
    \/ Connect
    \/ FetchAllHeaders
    \/ Tick
    \/ Fetch
    \/ FetchEmpty
    \/ Resolve
    \/ AppendOk
    \/ DeleteOk

SpecFair == InitRerun /\ [][NextOk]_vars /\ WF_vars(NextOk)

(* C14: with a finite table, one instance and no failing append, resolve or
   delete, the loop of a job terminates: every delete step removes at least
   one row, all of them expired, from the table, and a job that has started
   reaches the end of its loop with no expired row left in its table. *)
C14_LoopTerminates ==
    /\ [][/\ (pc = "delete" /\ pc' = "fetch") =>
                /\ source'[job] # source[job]
                /\ source'[job] \subseteq source[job]
                /\ \A r \in source[job] \ source'[job] : IsExpired(r, now)
          /\ \A j \in Jobs :
                (outcome[j] = "running" /\ outcome'[j] # "running") =>
                    (outcome'[j] = "done" /\ Expired(source'[j], now') = {})]_vars
    /\ <>(\A j \in Jobs : outcome[j] = "done")

\* both jobs ended after the first took more than one iteration
C14_Witness ==
    /\ pc = "exited"
    /\ \A j \in Jobs : outcome[j] = "done"
    /\ Cardinality({i \in 1..Len(log) : log[i].op = "delete" /\ log[i].job = 1}) >= 2
    /\ DeletedIds(2) # {}


----------------------------------------------------------------------------
(* Two instances of the script on the same source and destination, no call
   failing. One instance takes steps while the position and locals of the
   second are kept in `other`; a switch hands over between two calls. The
   workbook lookup (gc.open) and the workbook creation (gc.create) are two
   calls of get_spreadsheet_for_year, so a switch can fall between them.
   Nothing in the script takes a lock. *)

\* position and locals of the instance taking steps
Current ==
    [pc |-> pc, job |-> job, rows |-> rows, sh |-> sh, ws |-> ws, total |-> total,
     headers |-> headers, outcome |-> outcome, ret |-> ret,
     exitStatus |-> exitStatus, exitCause |-> exitCause]

\* the scheduler runs the second instance
Switch ==
    /\ other.pc # "exited"
    /\ other' = Current
    /\ pc' = other.pc
    /\ job' = other.job
    /\ rows' = other.rows
    /\ sh' = other.sh
    /\ ws' = other.ws
    /\ total' = other.total
    /\ headers' = other.headers
    /\ outcome' = other.outcome
    /\ ret' = other.ret
    /\ exitStatus' = other.exitStatus
    /\ exitCause' = other.exitCause
    /\ UNCHANGED <<source, dest, now, batchSize, src0, log, page, slices>>

\* sh = gc.open(sheet_name), or SpreadsheetNotFound
OpenWorkbook ==
    /\ pc = "resolve"
    /\ LET k == FindWorkbook(dest, SheetName(RowYear(rows[1])))
       IN  /\ sh' = k
           /\ pc' = IF k # 0 THEN "worksheet" ELSE "create"
    /\ UNCHANGED <<job, source, headers, dest, rows, ws, total, outcome, ret, exitStatus,
                   exitCause, now, batchSize, src0, log, page, slices, other>>

\* sh = gc.create(sheet_name); sh.share(...)
CreateWorkbook ==
    /\ pc = "create"
    /\ dest' = Append(dest, [name |-> SheetName(RowYear(rows[1])),
                             shared |-> TRUE, sheets |-> <<>>])
    /\ sh' = Len(dest) + 1
    /\ pc' = "worksheet"
    /\ UNCHANGED <<job, source, headers, rows, ws, total, outcome, ret, exitStatus,
                   exitCause, now, batchSize, src0, log, page, slices, other>>

\* ws = get_or_create_worksheet(sh, table_name, headers), taken as one step
GetWorksheet ==
    /\ pc = "worksheet"
    /\ LET r == GetOrCreateWorksheet(dest, sh, TableName(job), headers[job], "ok")
       IN  /\ dest' = r.dest
           /\ ws' = r.ws
    /\ log' = Append(log, LogEntry("resolve", job, TRUE, RowYear(rows[1]), <<>>))
    /\ pc' = "append"
    /\ UNCHANGED <<job, source, headers, rows, sh, total, outcome, ret, exitStatus,
                   exitCause, now, batchSize, src0, page, slices, other>>

NextTwo ==
    \/ LoadSecrets
    \/ AuthGoogle
    \/ Connect
    \/ FetchAllHeaders
    \/ Tick
    \/ Fetch
    \/ FetchEmpty
    \/ OpenWorkbook
    \/ CreateWorkbook
    \/ GetWorksheet
    \/ AppendOk
    \/ DeleteOk
    \/ Switch

\* one row in the first table, none in the second
InitTwo ==
    /\ Init
    /\ Cardinality(source[1]) <= 1
    /\ source[2] = {}

SpecTwo == InitTwo /\ [][NextTwo]_vars

\* the workbooks of year y
WorkbooksOf(y) == {b \in 1..Len(dest) : dest[b].name = SheetName(y)}

\* two fetches returned a common row with no committed delete between them
OverlappingFetches ==
    \E a \in 1..Len(log) : \E c \in (a + 1)..Len(log) :
        /\ log[a].op = "fetch" /\ log[c].op = "fetch"
        /\ log[a].job = log[c].job
        /\ Range(log[a].ids) \cap Range(log[c].ids) # {}
        /\ \A k \in a..c : log[k].op # "delete"

(* C12: with two instances on the same tables, nothing excludes the
   interleavings in which both fetch the same rows before either deletes or
   both find the workbook of a year absent and both create it: a row then is
   in the destination twice and the year has two workbooks. That is all the
   damage there is: a row is in the destination more than once only after
   overlapping fetches and never more than once per instance, a year never
   has more workbooks than there are instances, and a row gone from the
   source is in the destination. *)
C12_TwoInstancesDuplicate ==
    /\ \A j \in Jobs : \A r \in src0[j] :
          LET n == CountInDest(j, r)
          IN  /\ n <= 2
              /\ n = 2 => OverlappingFetches
              /\ r \notin source[j] => n >= 1
    /\ \A b \in 1..Len(dest) : Cardinality(WorkbooksOf(dest[b].name[2])) <= 2

\* both instances have ended: they fetched the same row before either
\* deleted, both found the workbook of its year absent and both created it;
\* the row is in the destination twice and its year has two workbooks
C12_Witness ==
    /\ pc = "exited"
    /\ other.pc = "exited"
    /\ OverlappingFetches
    /\ \E r \in src0[1] :
          /\ CountInDest(1, r) = 2
          /\ Cardinality(WorkbooksOf(RowYear(r))) = 2


----------------------------------------------------------------------------
\* the workbooks and worksheets that hold row r of job j
PlacesOf(j, r) ==
    {t \in UNION {{<<b, w>> : w \in 1..Len(dest[b].sheets)} : b \in 1..Len(dest)} :
        /\ dest[t[1]].sheets[t[2]].title = TableName(j)
        /\ Contains(dest[t[1]].sheets[t[2]].cells, Serialize(r, FullHeader(j)))}

(* C21: in a run of one instance in which no call fails, a row is never in
   the destination more than once, and only in the worksheet named after its
   table in the workbook named for the year of its own timestamp; a row gone
   from the source is there exactly once; when a job has ended, every row
   that was expired when the run started is there exactly once and gone from
   the source, and the count the job returned is the number of rows deleted
   from its table. *)
C21_ExactlyOnceToOwnYear ==
    \A j \in Jobs :
        /\ \A r \in src0[j] :
              LET n == CountInDest(j, r)
              IN  /\ n <= 1
                  /\ r \notin source[j] => n = 1
                  /\ n = 1 => r.id \in AppendedIds(j)
                  /\ \A t \in PlacesOf(j, r) :
                        dest[t[1]].name = <<"Disney Archive - ", RowYear(r)>>
                  /\ (outcome[j] = "done" /\ IsExpired(r, Now0)) =>
                        (n = 1 /\ r \notin source[j])
        /\ outcome[j] = "done" =>
              /\ ret[j] = IntRet(Cardinality(src0[j] \ source[j]))
              /\ Cardinality(src0[j] \ source[j]) = Cardinality(DeletedIds(j))

\* the run ended: the first job archived two rows of two years in two
\* workbooks and returned 2, the second archived one row in a worksheet of
\* its own in one of them and returned 1
C21_Witness ==
    /\ pc = "exited"
    /\ \A j \in Jobs : outcome[j] = "done"
    /\ Len(dest) = 2
    /\ ret[1] = IntRet(2)
    /\ ret[2] = IntRet(1)
    /\ \E b \in 1..Len(dest) : Len(dest[b].sheets) = 2

====
